---- MODULE Spec2Model ----
(***************************************************************************)
(* Model of the war_record Streamlit application:                          *)
(*   src/card_tracker.py           the summary ("quick statistics") page   *)
(*   src/pages/01_....py           the player data search page             *)
(*                                                                         *)
(* Text is a sequence of one-character strings.  A missing cell (pandas    *)
(* NaN, which is what an empty sheet cell is read as under na_filter=True) *)
(* is the empty sequence.  A DataFrame is a record                         *)
(*   [columns : sequence of column names, rows : sequence of rows]         *)
(* where a row maps each column name to a cell.  Japanese literals of the  *)
(* source are written in romaji: "kachi" is the win token, "make" a loss,  *)
(* "Sheet1" the default worksheet name.                                    *)
(***************************************************************************)
EXTENDS Integers, Sequences, FiniteSets, TLC

(***************************************************************************)
(* Bounds of the model.                                                    *)
(***************************************************************************)
MaxRows == 3
MaxLoadRows == 1
MaxWarRows == 3
MaxPick == 3
MaxTime == 300
TickStep == 150

(***************************************************************************)
(* Program constants.                                                      *)
(***************************************************************************)
TTL == 300
MaxFacetValues == 50
PLAYER_WORKSHEET_NAME == "Sheet1"
WORKSHEET_NAME == "Sheet1"
COLUMNS == <<"season", "date", "environment", "my_deck", "my_deck_type",
             "opponent_deck", "opponent_deck_type", "first_second", "result",
             "finish_turn", "memo">>
WinToken == <<"k", "a", "c", "h", "i">>
LossToken == <<"m", "a", "k", "e">>

(***************************************************************************)
(* Text and cells.                                                         *)
(***************************************************************************)
NaN == <<>>
NanText == <<"n", "a", "n">>
NaT == NaN

isna(cell) == cell = NaN

\* Series.astype(str): every cell becomes text; a missing cell becomes "nan".
astype_str(cell) == IF isna(cell) THEN NanText ELSE cell

\* Case folding as done by re.IGNORECASE on the letters of the model.
Lower(ch) ==
    CASE ch = "A" -> "a"
      [] ch = "B" -> "b"
      [] ch = "N" -> "n"
      [] ch = "P" -> "p"
      [] OTHER -> ch

\* The pattern matches the text at the given offset.  The pattern is a
\* regular expression (str.contains has regex=True by default): "." matches
\* any one character, any other character of the model matches itself,
\* ignoring case.
MatchesAt(pat, text, off) ==
    \A i \in 1..Len(pat) : pat[i] = "." \/ Lower(pat[i]) = Lower(text[off + i])

\* Series.str.contains(pat, case=False, na=False) on one cell: re.search of
\* the pattern in the cell's text; a missing cell gives na, i.e. False.
str_contains(cell, pat) ==
    IF isna(cell) THEN FALSE
    ELSE \E off \in 0..(Len(cell) - Len(pat)) : MatchesAt(pat, cell, off)

(***************************************************************************)
(* DataFrames.                                                             *)
(***************************************************************************)
EmptyDataFrame == [columns |-> <<>>, rows |-> <<>>]

Range(s) == {s[i] : i \in 1..Len(s)}

\* DataFrame.empty: some axis has length 0.
empty(frame) == Len(frame.columns) = 0 \/ Len(frame.rows) = 0

RECURSIVE SelectRows(_, _, _)
\* df[mask]: the rows whose position is in keep, in their order.
SelectRows(rows, keep, i) ==
    IF i > Len(rows) THEN <<>>
    ELSE (IF i \in keep THEN <<rows[i]>> ELSE <<>>) \o SelectRows(rows, keep, i + 1)

RECURSIVE SelectCols(_, _, _)
SelectCols(cols, keep, i) ==
    IF i > Len(cols) THEN <<>>
    ELSE (IF cols[i] \in keep THEN <<cols[i]>> ELSE <<>>) \o SelectCols(cols, keep, i + 1)

\* df[list of columns]: the listed columns, in the order listed.
Project(frame, cols) ==
    [columns |-> cols,
     rows |-> [i \in 1..Len(frame.rows) |-> [c \in Range(cols) |-> frame.rows[i][c]]]]

\* df.dropna(how='all'): drop the rows in which every column is missing.
dropna_all(frame) ==
    [columns |-> frame.columns,
     rows |-> SelectRows(frame.rows,
                  {i \in 1..Len(frame.rows) :
                      \E c \in Range(frame.columns) : ~isna(frame.rows[i][c])}, 1)]

\* A column name matches the regular expression '^Unnamed'.
IsUnnamed(col) == col \in {"Unnamed: 1", "Unnamed: 2"}

\* df.loc[:, ~df.columns.str.contains('^Unnamed')]
DropUnnamed(frame) ==
    Project(frame, SelectCols(frame.columns, {c \in Range(frame.columns) : ~IsUnnamed(c)}, 1))

\* df[col].dropna().unique(), as a set.
unique(frame, col) == {frame.rows[i][col] : i \in 1..Len(frame.rows)} \ {NaN}

(***************************************************************************)
(* The environment: configuration, credentials and the remote sheets.      *)
(* These are fixed when the process starts; the outcome of one remote      *)
(* call (authorisation, opening the sheet) is drawn at each call.          *)
(***************************************************************************)
VARIABLES
    PLAYER_SPREADSHEET_ID,  \* "" (as shipped) or the configured sheet key
    SPREADSHEET_ID,         \* st.secrets["spreadsheet_ids"]["war_record"], "" for None
    secrets,                \* gcp_service_account in st.secrets: "absent", "malformed", "valid"
    keyfile,                \* service_account.json: "missing", "valid"
    playerSheet,            \* what get_as_dataframe reads from the player sheet
    warSheet                \* what get_as_dataframe reads from the match-record sheet

VARIABLES
    now,                    \* wall clock, in seconds
    client_cache,           \* st.cache_resource of the search page's get_gspread_client
    summary_client_cache,   \* st.cache_resource of card_tracker's get_gspread_client
    data_cache,             \* st.cache_data(ttl=300) of load_player_data
    fetch_log,              \* history: per key, the last completed execution of load_player_data
    session_state,          \* st.session_state of the search page
    search_method,          \* the radio widget (no key)
    search_term             \* the keyword text_input widget (no key)

VARIABLES
    page,                   \* what the last run of the search page ended with
    df,                     \* the table load_player_data returned in the last run
    filtered_df,
    facets,                 \* the columns offered as multiselect facets in the last run
    display_columns,        \* the value of the display-column multiselect in the last run
    csv,                    \* the text handed to st.download_button, <<>> when none
    reset_button,           \* the reset button was rendered in the last run
    calls,                  \* the load_player_data calls made by the last step
    reset_done              \* the last step executed the reset branch

VARIABLES
    sdf,                    \* the table load_summary_data returned in the last run
    summary,                \* the metrics shown by the last run of card_tracker.py
    summary_call            \* the load_summary_data call made by the last step

env == <<PLAYER_SPREADSHEET_ID, SPREADSHEET_ID, secrets, keyfile, playerSheet, warSheet>>
prog == <<client_cache, data_cache, fetch_log, session_state, search_method, search_term>>
shown == <<page, df, filtered_df, facets, display_columns, csv, reset_button, calls, reset_done>>
summ == <<summary_client_cache, sdf, summary, summary_call>>
vars == <<env, now, prog, shown, summ>>

Sids == {"s1", "s2"}
Worksheets == {PLAYER_WORKSHEET_NAME}
Keys == Sids \X Worksheets

PlayerColumns == <<"name", "team", "Unnamed: 2">>
FacetColumns == {"name", "team"}

\* The sheet behind any key other than the configured one.
OtherSheet ==
    [columns |-> PlayerColumns,
     rows |-> << [c \in Range(PlayerColumns) |->
                    IF c = "name" THEN <<"n", "b">> ELSE NaN] >>]

\* spreadsheet.worksheet(name) read by get_as_dataframe.
Remote(sid, ws) == IF sid = "s1" THEN playerSheet ELSE OtherSheet

(***************************************************************************)
(* get_gspread_client of the search page (under st.cache_resource: the     *)
(* returned value, None included, is kept for the life of the process; an  *)
(* exception is not kept).                                                 *)
(***************************************************************************)
Authorize(memo, authOk) ==
    IF authOk THEN [raised |-> FALSE, ret |-> "client", memo |-> "client"]
    ELSE [raised |-> FALSE, ret |-> "None", memo |-> "None"]

get_gspread_client(memo, authOk) ==
    IF memo # "unset" THEN [raised |-> FALSE, ret |-> memo, memo |-> memo]
    ELSE IF secrets # "absent"
         THEN IF secrets = "malformed"
              \* Credentials.from_service_account_info raises outside any try
              THEN [raised |-> TRUE, ret |-> "None", memo |-> memo]
              ELSE Authorize(memo, authOk)
         ELSE IF keyfile = "missing"
              THEN [raised |-> FALSE, ret |-> "None", memo |-> "None"]
              ELSE Authorize(memo, authOk)

\* Lines 59-77 of load_player_data, once the client is known.
LoadWithClient(sid, ws, c, openOk) ==
    IF c.raised
    THEN [raised |-> TRUE, value |-> EmptyDataFrame, contacted |-> FALSE, memo |-> c.memo]
    ELSE IF c.ret = "None"
    THEN [raised |-> FALSE, value |-> EmptyDataFrame, contacted |-> FALSE, memo |-> c.memo]
    ELSE IF ~openOk
    THEN [raised |-> FALSE, value |-> EmptyDataFrame, contacted |-> TRUE, memo |-> c.memo]
    ELSE [raised |-> FALSE, value |-> DropUnnamed(dropna_all(Remote(sid, ws))),
          contacted |-> TRUE, memo |-> c.memo]

\* The body of load_player_data.
load_player_data_body(sid, ws, memo, authOk, openOk) ==
    IF sid = ""
    THEN [raised |-> FALSE, value |-> EmptyDataFrame, contacted |-> FALSE, memo |-> memo]
    ELSE LoadWithClient(sid, ws, get_gspread_client(memo, authOk), openOk)

NoEntry == [present |-> FALSE, value |-> EmptyDataFrame, at |-> 0]
NoFetch == [done |-> FALSE, value |-> EmptyDataFrame, at |-> 0, cleared |-> FALSE]

\* Mutant: the entry never expires.
Fresh_NoExpiry(entry, t) == entry.present

\* An entry of the TTL cache is served while the clock is before its expiry.
Fresh(entry, t) == entry.present /\ t < entry.at + TTL

\* The cached value is served: the body does not run.
CacheHit(P, key) ==
    [raised |-> FALSE, value |-> P.data_cache[key].value,
     client_cache |-> P.client_cache, data_cache |-> P.data_cache,
     fetch_log |-> P.fetch_log,
     call |-> << [key |-> key, hit |-> TRUE, contacted |-> FALSE, raised |-> FALSE,
                  client |-> P.client_cache, value |-> P.data_cache[key].value,
                  prev |-> P.fetch_log[key]] >>]

\* The body ran with result r: its value is stored unless it raised.
CacheMiss(P, key, t, r) ==
    [raised |-> r.raised, value |-> r.value,
     client_cache |-> r.memo,
     data_cache |-> IF r.raised THEN P.data_cache
                    ELSE [P.data_cache EXCEPT ![key] =
                             [present |-> TRUE, value |-> r.value, at |-> t]],
     fetch_log |-> IF r.raised THEN P.fetch_log
                   ELSE [P.fetch_log EXCEPT ![key] =
                            [done |-> TRUE, value |-> r.value, at |-> t, cleared |-> FALSE]],
     call |-> << [key |-> key, hit |-> FALSE, contacted |-> r.contacted,
                  raised |-> r.raised, client |-> r.memo, value |-> r.value,
                  prev |-> P.fetch_log[key]] >>]

\* load_player_data under st.cache_data(ttl=300).  P is the program state
\* (a record with client_cache, data_cache, fetch_log); the result carries
\* the returned table, the new program state and the record of the call.
load_player_data(P, sid, ws, t, authOk, openOk) ==
    IF Fresh(P.data_cache[<<sid, ws>>], t)
    THEN CacheHit(P, <<sid, ws>>)
    ELSE CacheMiss(P, <<sid, ws>>, t,
                   load_player_data_body(sid, ws, P.client_cache, authOk, openOk))

(***************************************************************************)
(* The search / filter engine of main().                                   *)
(***************************************************************************)
\* row.astype(str).str.contains(search_term, case=False, na=False).any()
RowMatches(frame, i, term) ==
    \E c \in Range(frame.columns) : str_contains(astype_str(frame.rows[i][c]), term)

\* Lines 145-151: the keyword filter; an empty keyword leaves df.copy().
KeywordFilter(frame, term) ==
    IF term = <<>> THEN frame
    ELSE [columns |-> frame.columns,
          rows |-> SelectRows(frame.rows,
                       {i \in 1..Len(frame.rows) : RowMatches(frame, i, term)}, 1)]

\* Mutant: the upper limit is exclusive.
IsFacet_Exclusive(frame, col) ==
    LET n == Cardinality(unique(frame, col)) IN n > 0 /\ n < MaxFacetValues

\* Line 159: the column gets a multiselect.
IsFacet(frame, col) ==
    LET n == Cardinality(unique(frame, col)) IN n > 0 /\ n <= MaxFacetValues

\* Line 162: the options of the multiselect, as a set.
Options(frame, col) == {astype_str(v) : v \in unique(frame, col)}

\* Line 167: filtered_df[filtered_df[col].astype(str).isin(selected_values)]
IsinFilter(fdf, col, selected) ==
    [columns |-> fdf.columns,
     rows |-> SelectRows(fdf.rows,
                  {i \in 1..Len(fdf.rows) : astype_str(fdf.rows[i][col]) \in selected}, 1)]

RECURSIVE FacetLoop_FromFull(_, _, _, _)
\* Mutant: each facet filters the full table instead of narrowing filtered_df.
FacetLoop_FromFull(frame, fdf, selected, i) ==
    IF i > Len(frame.columns) THEN fdf
    ELSE IF IsFacet(frame, frame.columns[i]) /\ selected[frame.columns[i]] # {}
         THEN FacetLoop_FromFull(frame,
                  IsinFilter(frame, frame.columns[i], selected[frame.columns[i]]),
                  selected, i + 1)
         ELSE FacetLoop_FromFull(frame, fdf, selected, i + 1)

RECURSIVE FacetLoop_NoneAccepted(_, _, _, _)
\* Mutant: a facet with no selection accepts no row.
FacetLoop_NoneAccepted(frame, fdf, selected, i) ==
    IF i > Len(frame.columns) THEN fdf
    ELSE IF IsFacet(frame, frame.columns[i])
         THEN FacetLoop_NoneAccepted(frame,
                  IsinFilter(fdf, frame.columns[i], selected[frame.columns[i]]),
                  selected, i + 1)
         ELSE FacetLoop_NoneAccepted(frame, fdf, selected, i + 1)

RECURSIVE FacetLoop(_, _, _, _)
\* Lines 157-167: the loop over df.columns, narrowing filtered_df.
FacetLoop(frame, fdf, selected, i) ==
    IF i > Len(frame.columns) THEN fdf
    ELSE LET col == frame.columns[i] IN
         IF IsFacet(frame, col) /\ selected[col] # {}
         THEN FacetLoop(frame, IsinFilter(fdf, col, selected[col]), selected, i + 1)
         ELSE FacetLoop(frame, fdf, selected, i + 1)

\* filtered_df[display_columns].to_csv(index=False): a header line and one
\* line per row; a missing cell is written as the empty text.
to_csv(fdf, cols) ==
    [offered |-> TRUE, header |-> cols,
     lines |-> [i \in 1..Len(fdf.rows) |-> [j \in 1..Len(cols) |-> fdf.rows[i][cols[j]]]]]

NoCsv == [offered |-> FALSE, header |-> <<>>, lines |-> <<>>]

(***************************************************************************)
(* st.session_state of the search page.  temp is the pair of keys          *)
(* temp_spreadsheet_id / temp_worksheet_name ("" when absent), display the *)
(* key display_columns, filters the keys filter_<col>.  A widget that is   *)
(* not rendered in a run loses its state at the end of the run.            *)
(***************************************************************************)
NoDisplay == [set |-> FALSE, value |-> <<>>]
NoFilters == [c \in FacetColumns |-> {}]
EmptySession == [temp |-> "", display |-> NoDisplay, filters |-> NoFilters]

\* st.cache_data.clear()
ClearedCache == [k \in Keys |-> NoEntry]

\* What a run that stops before the sidebar leaves behind.
Stopped(P, L, endpage, table) ==
    [client_cache |-> L.client_cache, data_cache |-> L.data_cache,
     fetch_log |-> L.fetch_log,
     session_state |-> [EmptySession EXCEPT !.temp = P.session_state.temp],
     search_method |-> "keyword", search_term |-> <<>>,
     page |-> endpage, df |-> table, filtered_df |-> table, facets |-> {},
     display_columns |-> <<>>, csv |-> NoCsv, reset_button |-> FALSE,
     call |-> L.call, rerun |-> FALSE]

\* Mutant: the export is built whatever the selection.
ExportCsv_Always(fdf, shownCols) == to_csv(fdf, shownCols)

\* Lines 191-213: the export is built only when a column is selected.
ExportCsv(fdf, shownCols) ==
    IF shownCols # <<>> THEN to_csv(fdf, shownCols) ELSE NoCsv

\* Lines 169-215: the result area, for the table d, the filtered table fdf
\* and the value shownCols of the display-column multiselect.
ShowResults(P, click, L, fcts, selected, fdf, shownCols) ==
    IF empty(fdf)                                                     \* line 215
    THEN [client_cache |-> L.client_cache, data_cache |-> L.data_cache,
          fetch_log |-> L.fetch_log,
          session_state |-> [temp |-> P.session_state.temp, display |-> NoDisplay,
                             filters |-> selected],
          search_method |-> P.search_method,
          search_term |-> IF P.search_method = "keyword" THEN P.search_term ELSE <<>>,
          page |-> "noresult", df |-> L.value, filtered_df |-> fdf, facets |-> fcts,
          display_columns |-> <<>>, csv |-> NoCsv, reset_button |-> FALSE,
          call |-> L.call, rerun |-> FALSE]
    ELSE IF click = "reset"                                           \* lines 185-189
    THEN [client_cache |-> L.client_cache, data_cache |-> ClearedCache,
          fetch_log |-> [k \in Keys |-> [L.fetch_log[k] EXCEPT !.cleared = TRUE]],
          session_state |-> EmptySession,
          search_method |-> P.search_method,
          search_term |-> IF P.search_method = "keyword" THEN P.search_term ELSE <<>>,
          page |-> "rerun", df |-> L.value, filtered_df |-> fdf, facets |-> fcts,
          display_columns |-> shownCols, csv |-> NoCsv, reset_button |-> TRUE,
          call |-> L.call, rerun |-> TRUE]
    ELSE [client_cache |-> L.client_cache, data_cache |-> L.data_cache,
          fetch_log |-> L.fetch_log,
          session_state |-> [temp |-> P.session_state.temp,
                             display |-> [set |-> TRUE, value |-> shownCols],
                             filters |-> selected],
          search_method |-> P.search_method,
          search_term |-> IF P.search_method = "keyword" THEN P.search_term ELSE <<>>,
          page |-> IF shownCols # <<>> THEN "results" ELSE "nocolumns",   \* lines 191, 213
          df |-> L.value, filtered_df |-> fdf, facets |-> fcts,
          display_columns |-> shownCols,
          csv |-> ExportCsv(fdf, shownCols),
          reset_button |-> TRUE, call |-> L.call, rerun |-> FALSE]

\* Lines 176-181: the display-column multiselect: its stored value, or all
\* the columns by default.
DisplayValue(P, d) ==
    IF P.session_state.display.set
    THEN SelectSeq(P.session_state.display.value, LAMBDA c : c \in Range(d.columns))
    ELSE d.columns

\* Lines 137-167 with the facets and their selected values known.
ApplyFilter(P, click, L, fcts, selected) ==
    ShowResults(P, click, L, fcts, selected,
                IF P.search_method = "keyword"
                THEN KeywordFilter(L.value, P.search_term)
                ELSE FacetLoop(L.value, L.value, selected, 1),
                DisplayValue(P, L.value))

\* The value of each facet's multiselect (key filter_<col>).
SelectedValues(P, d, fcts) ==
    [c \in FacetColumns |->
        IF c \in fcts THEN P.session_state.filters[c] \cap Options(d, c) ELSE {}]

\* Lines 125-167: the sidebar, for a loaded table.
Sidebar(P, click, L, fcts) ==
    ApplyFilter(P, click, L, fcts, SelectedValues(P, L.value, fcts))

\* Lines 119-167: after load_player_data returned (or raised).
AfterLoad(P, click, L) ==
    IF L.raised THEN Stopped(P, L, "raised", EmptyDataFrame)
    ELSE IF empty(L.value) THEN Stopped(P, L, "nodata", L.value)          \* line 121
    ELSE Sidebar(P, click, L,
                 IF P.search_method = "keyword" THEN {}
                 ELSE {c \in Range(L.value.columns) : IsFacet(L.value, c)})

\* One run of main() from the program state P at time t.  click is "reset"
\* when the run is the one triggered by pressing the reset button.
RunOnce(P, click, t, authOk, openOk) ==
    IF PLAYER_SPREADSHEET_ID = "" /\ P.session_state.temp = ""
    THEN Stopped(P, [client_cache |-> P.client_cache, data_cache |-> P.data_cache,
                     fetch_log |-> P.fetch_log, call |-> <<>>],
                 "setup", EmptyDataFrame)                                 \* line 110
    ELSE AfterLoad(P, click,
                   load_player_data(P,
                       IF PLAYER_SPREADSHEET_ID = "" THEN P.session_state.temp
                       ELSE PLAYER_SPREADSHEET_ID,
                       PLAYER_WORKSHEET_NAME, t, authOk, openOk))         \* line 117

(***************************************************************************)
(* card_tracker.py: the summary loader and the quick statistics.           *)
(***************************************************************************)
\* get_gspread_client of card_tracker.py (lines 71-96).
summary_get_gspread_client(memo, authOk) ==
    IF memo # "unset" THEN [raised |-> FALSE, ret |-> memo, memo |-> memo]
    ELSE IF secrets # "absent"
         THEN IF secrets = "malformed"
              THEN [raised |-> TRUE, ret |-> "None", memo |-> memo]
              ELSE Authorize(memo, authOk)
         ELSE [raised |-> FALSE, ret |-> "None", memo |-> "None"]         \* line 90

\* Text that pd.to_datetime parses as a date.
IsDateText(cell) == cell = <<"d">>

\* pd.to_datetime(..., errors='coerce') on one cell.
to_datetime(cell) == IF IsDateText(cell) THEN cell ELSE NaT

\* Lines 116-121: keep the columns of COLUMNS that exist, in the order of
\* COLUMNS, then coerce the date column.
KeepNeeded(frame) ==
    LET needed_cols == SelectSeq(COLUMNS, LAMBDA c : c \in Range(frame.columns))
        kept == Project(frame, needed_cols)
    IN  [columns |-> needed_cols,
         rows |-> [i \in 1..Len(kept.rows) |->
                     [c \in Range(needed_cols) |->
                         IF c = "date" THEN to_datetime(kept.rows[i][c])
                         ELSE kept.rows[i][c]]]]

\* Lines 104-125 of load_summary_data, once the client is known.
SummaryWithClient(c, openOk) ==
    IF c.raised
    THEN [raised |-> TRUE, value |-> EmptyDataFrame, contacted |-> FALSE, memo |-> c.memo]
    ELSE IF c.ret = "None"
    THEN [raised |-> FALSE, value |-> EmptyDataFrame, contacted |-> FALSE, memo |-> c.memo]
    ELSE IF ~openOk
    THEN [raised |-> FALSE, value |-> EmptyDataFrame, contacted |-> TRUE, memo |-> c.memo]
    ELSE IF empty(warSheet)                                               \* line 112
    THEN [raised |-> FALSE, value |-> EmptyDataFrame, contacted |-> TRUE, memo |-> c.memo]
    ELSE [raised |-> FALSE, value |-> KeepNeeded(warSheet),
          contacted |-> TRUE, memo |-> c.memo]

\* load_summary_data (lines 98-125); it is not cached.
load_summary_data(memo, authOk, openOk) ==
    IF SPREADSHEET_ID = ""
    THEN [raised |-> FALSE, value |-> EmptyDataFrame, contacted |-> FALSE, memo |-> memo]
    ELSE SummaryWithClient(summary_get_gspread_client(memo, authOk), openOk)

\* len(df[df['result'] == WIN])
Wins(frame) == Cardinality({i \in 1..Len(frame.rows) : frame.rows[i]["result"] = WinToken})

\* Mutant: the division is an integer division.
WinRate_IntDiv(wins, n) == IF n > 0 THEN (wins \div n) * 1000 ELSE 0

\* Lines 147-148: (wins / len(df) * 100) if len(df) > 0 else 0, shown with
\* one decimal; the value is kept in tenths of a percent.  Below 16 rows no
\* ratio lies half way between two tenths, so the rounding mode is immaterial.
WinRate(wins, n) == IF n > 0 THEN (2000 * wins + n) \div (2 * n) ELSE 0

NoSummaryCall == [made |-> FALSE, raised |-> FALSE, contacted |-> FALSE, client |-> "unset"]

NoSummary ==
    [status |-> "none", total |-> 0, has_result |-> FALSE, wins |-> 0, win_rate |-> 0,
     has_season |-> FALSE, seasons |-> 0]

\* Lines 128-161: the metrics of a loaded table.
Metrics(frame) ==
    IF empty(frame) THEN [NoSummary EXCEPT !.status = "nodata"]
    ELSE LET hasR == "result" \in Range(frame.columns)
             hasS == "season" \in Range(frame.columns)
             n == Len(frame.rows)
         IN  [status |-> "metrics", total |-> n,
              has_result |-> hasR,
              wins |-> IF hasR THEN Wins(frame) ELSE 0,
              win_rate |-> IF hasR THEN WinRate(Wins(frame), n) ELSE 0,
              has_season |-> hasS,
              seasons |-> IF hasS THEN Cardinality(unique(frame, "season")) ELSE 0]

(***************************************************************************)
(* The sheets the model draws from.                                        *)
(***************************************************************************)
SeqsUpTo(S, n) == UNION {[1..k -> S] : k \in 0..n}

PlayerRow(n, t, u) ==
    [c \in Range(PlayerColumns) |-> IF c = "name" THEN n ELSE IF c = "team" THEN t ELSE u]

Names == {NaN, <<"A", "b">>, <<"n", "b">>}
Teams == {NaN, <<"B">>}

\* Sheets for the loader: a cell under an unnamed header may be filled.
LoadRows == {PlayerRow(n, NaN, u) : n \in {NaN, <<"A", "b">>}, u \in {NaN, <<"x">>}}
LoadSheets == {[columns |-> PlayerColumns, rows |-> r] : r \in SeqsUpTo(LoadRows, MaxLoadRows)}

\* Sheets for the filter engine.
FilterRows == {PlayerRow(n, t, NaN) : n \in Names, t \in Teams} \ {PlayerRow(NaN, NaN, NaN)}
Digit(d) == <<"0", "1", "2", "3", "4", "5", "6", "7", "8", "9">>[d + 1]
Id(i) == <<"p", Digit(i \div 10), Digit(i % 10)>>
LongSheet(n) ==
    [columns |-> PlayerColumns,
     rows |-> [i \in 1..n |-> PlayerRow(Id(i), IF i % 2 = 0 THEN <<"B">> ELSE NaN, NaN)]]
FilterSheets ==
    {[columns |-> PlayerColumns, rows |-> r] : r \in SeqsUpTo(FilterRows, MaxRows)}
    \cup {LongSheet(MaxFacetValues), LongSheet(MaxFacetValues + 1)}

Keywords == {<<>>, <<"a">>, <<"A", "B">>, <<"a", "n">>, <<".", "b">>}

\* Match-record sheets.
WarHeaders == {<<"result", "date">>, <<"season", "extra">>}
WarCells(c) ==
    CASE c = "season" -> {NaN, <<"S">>}
      [] c = "date" -> {NaN, <<"d">>, <<"x">>}
      [] c = "result" -> {NaN, WinToken, LossToken}
      [] OTHER -> {NaN, <<"m">>}
WarRows(h) == {r \in [Range(h) -> {NaN, <<"S">>, <<"d">>, <<"x">>, WinToken, LossToken, <<"m">>}] :
                  \A c \in Range(h) : r[c] \in WarCells(c)}
WarSheetsOf(h) == {[columns |-> h, rows |-> r] : r \in SeqsUpTo(WarRows(h), MaxWarRows)}
WarSheets == UNION {WarSheetsOf(h) : h \in WarHeaders}
LoadWarSheets ==
    {[columns |-> <<"result", "season", "date">>,
      rows |-> << [c \in {"result", "season", "date"} |-> IF c = "result" THEN WinToken ELSE NaN],
                  [c \in {"result", "season", "date"} |-> NaN] >>]}

(***************************************************************************)
(* Initial states: nothing has run yet.                                    *)
(***************************************************************************)
InitProgram ==
    /\ now = 0
    /\ client_cache = "unset"
    /\ summary_client_cache = "unset"
    /\ data_cache = ClearedCache
    /\ fetch_log = [k \in Keys |-> NoFetch]
    /\ session_state = EmptySession
    /\ search_method = "keyword"
    /\ search_term = <<>>
    /\ page = "none"
    /\ df = EmptyDataFrame
    /\ filtered_df = EmptyDataFrame
    /\ facets = {}
    /\ display_columns = <<>>
    /\ csv = NoCsv
    /\ reset_button = FALSE
    /\ calls = <<>>
    /\ reset_done = FALSE
    /\ sdf = EmptyDataFrame
    /\ summary = NoSummary
    /\ summary_call = NoSummaryCall

Init ==
    /\ InitProgram
    /\ PLAYER_SPREADSHEET_ID \in {"", "s1"}
    /\ SPREADSHEET_ID \in {"", "war"}
    /\ \/ secrets = "absent" /\ keyfile \in {"missing", "valid"}
       \/ secrets \in {"malformed", "valid"} /\ keyfile = "missing"
    /\ playerSheet \in LoadSheets
    /\ warSheet \in LoadWarSheets

InitFilter ==
    /\ InitProgram
    /\ PLAYER_SPREADSHEET_ID = "s1"
    /\ SPREADSHEET_ID = "war"
    /\ secrets = "valid"
    /\ keyfile = "valid"
    /\ playerSheet \in FilterSheets
    /\ warSheet \in LoadWarSheets

InitSummary ==
    /\ InitProgram
    /\ PLAYER_SPREADSHEET_ID = "s1"
    /\ SPREADSHEET_ID = "war"
    /\ secrets = "valid"
    /\ keyfile = "valid"
    /\ playerSheet \in {OtherSheet}
    /\ warSheet \in WarSheets

(***************************************************************************)
(* Actions: one user interaction, or one page load, is one script run.     *)
(***************************************************************************)
Program ==
    [client_cache |-> client_cache, data_cache |-> data_cache, fetch_log |-> fetch_log,
     session_state |-> session_state, search_method |-> search_method,
     search_term |-> search_term]

\* The outcome of the remote calls of one run: everything works, or
\* gspread.authorize fails, or opening / reading the worksheet fails.
Outcomes == {"ok", "auth_fails", "open_fails"}

\* The state a run leaves behind; first is the record of the calls made
\* before a rerun, if there was one.
Finish(r, first, didReset) ==
    /\ client_cache' = r.client_cache
    /\ data_cache' = r.data_cache
    /\ fetch_log' = r.fetch_log
    /\ session_state' = r.session_state
    /\ search_method' = r.search_method
    /\ search_term' = r.search_term
    /\ page' = r.page
    /\ df' = r.df
    /\ filtered_df' = r.filtered_df
    /\ facets' = r.facets
    /\ display_columns' = r.display_columns
    /\ csv' = r.csv
    /\ reset_button' = r.reset_button
    /\ calls' = first \o r.call
    /\ reset_done' = didReset
    /\ sdf' = EmptyDataFrame
    /\ summary' = NoSummary
    /\ summary_call' = NoSummaryCall
    /\ UNCHANGED <<env, now, summary_client_cache>>

\* After the run r1: a reset clicked in it has cleared the caches and the
\* session, and the script runs again (st.rerun()).
AfterRun(r1) ==
    IF r1.rerun
    THEN \E o2 \in Outcomes :
            Finish(RunOnce([client_cache |-> r1.client_cache,
                            data_cache |-> r1.data_cache,
                            fetch_log |-> r1.fetch_log,
                            session_state |-> r1.session_state,
                            search_method |-> r1.search_method,
                            search_term |-> r1.search_term],
                           "none", now, o2 # "auth_fails", o2 # "open_fails"),
                   r1.call, TRUE)
    ELSE Finish(r1, <<>>, FALSE)

\* The sheet key main() loads: the configured one, else the temporary one.
SheetKey(P) ==
    IF PLAYER_SPREADSHEET_ID = "" THEN P.session_state.temp ELSE PLAYER_SPREADSHEET_ID

\* An outcome is drawn only when the run reaches the remote side: not on the
\* setup screen, and not when the cached table is served.
RemoteOutcomes(P) ==
    IF SheetKey(P) = "" THEN {"ok"}
    ELSE IF Fresh(P.data_cache[<<SheetKey(P), PLAYER_WORKSHEET_NAME>>], now) THEN {"ok"}
    ELSE Outcomes

\* The script runs from the program state P.
Run(P, click) ==
    \E o1 \in RemoteOutcomes(P) :
        AfterRun(RunOnce(P, click, now, o1 # "auth_fails", o1 # "open_fails"))

SidebarShown == page \in {"results", "nocolumns", "noresult"}

\* The page is opened or re-run with no input changed.
Visit == Run(Program, "none")

\* Lines 100-104: the load button with a non-empty temporary sheet key.
ClickLoad ==
    /\ PLAYER_SPREADSHEET_ID = ""
    /\ page # "none"
    /\ \E temp_id \in Sids :
          Run([Program EXCEPT !.session_state.temp = temp_id], "none")

\* Line 129: the radio.
SetSearchMethod ==
    /\ SidebarShown
    /\ \E m \in {"keyword", "facet"} :
          m # search_method /\ Run([Program EXCEPT !.search_method = m], "none")

\* Line 139: the keyword input.
SetSearchTerm ==
    /\ SidebarShown
    /\ search_method = "keyword"
    /\ \E k \in Keywords :
          k # search_term /\ Run([Program EXCEPT !.search_term = k], "none")

\* The options the model's user picks among: those of the first MaxPick rows.
PickFrom(col) ==
    {astype_str(df.rows[i][col]) :
        i \in 1..(IF Len(df.rows) < MaxPick THEN Len(df.rows) ELSE MaxPick)}
    \cap Options(df, col)

\* Line 160: one value is selected or deselected in one facet.
ToggleFacet ==
    /\ SidebarShown
    /\ \E col \in facets : \E v \in PickFrom(col) :
          LET cur == session_state.filters[col]
              new == IF v \in cur THEN cur \ {v} ELSE cur \cup {v}
          IN  Run([Program EXCEPT !.session_state.filters[col] = new], "none")

\* Line 176: one column is selected or deselected for display.
ToggleDisplayColumn ==
    /\ page \in {"results", "nocolumns"}
    /\ \E c \in Range(df.columns) :
          LET cur == display_columns
              new == IF c \in Range(cur) THEN SelectSeq(cur, LAMBDA x : x # c)
                     ELSE Append(cur, c)
          IN  Run([Program EXCEPT !.session_state.display = [set |-> TRUE, value |-> new]],
                  "none")

\* Line 185: the reset button.
ClickReset ==
    /\ reset_button
    /\ Run(Program, "reset")

\* Time passes; the step makes no call.
Tick ==
    /\ now + TickStep <= MaxTime
    /\ now' = now + TickStep
    /\ calls' = <<>>
    /\ reset_done' = FALSE
    /\ summary_call' = NoSummaryCall
    /\ UNCHANGED <<env, prog, page, df, filtered_df, facets, display_columns, csv,
                   reset_button, summary_client_cache, sdf, summary>>

\* One run of card_tracker.py.
RunSummary ==
    \E o \in Outcomes :
        LET r == load_summary_data(summary_client_cache, o # "auth_fails", o # "open_fails") IN
        /\ summary_client_cache' = r.memo
        /\ sdf' = r.value
        /\ summary' = IF r.raised THEN [NoSummary EXCEPT !.status = "preparing"]   \* line 161
                      ELSE Metrics(r.value)
        /\ summary_call' = [made |-> TRUE, raised |-> r.raised, contacted |-> r.contacted,
                            client |-> r.memo]
        \* the search page is left: its widgets and its output are gone
        /\ session_state' = [EmptySession EXCEPT !.temp = session_state.temp]
        /\ search_method' = "keyword"
        /\ search_term' = <<>>
        /\ page' = "none"
        /\ df' = EmptyDataFrame
        /\ filtered_df' = EmptyDataFrame
        /\ facets' = {}
        /\ display_columns' = <<>>
        /\ csv' = NoCsv
        /\ reset_button' = FALSE
        /\ calls' = <<>>
        /\ reset_done' = FALSE
        /\ UNCHANGED <<env, now, client_cache, data_cache, fetch_log>>

Next ==
    \/ Visit
    \/ ClickLoad
    \/ ClickReset
    \/ Tick
    \/ RunSummary

NextFilter ==
    \/ Visit
    \/ SetSearchMethod
    \/ SetSearchTerm
    \/ ToggleFacet
    \/ ToggleDisplayColumn
    \/ ClickReset

NextSummary == RunSummary

Spec == Init /\ [][Next]_vars
SpecFilter == InitFilter /\ [][NextFilter]_vars
SpecSummary == InitSummary /\ [][NextSummary]_vars

(***************************************************************************)
(* Properties.                                                             *)
(***************************************************************************)
\* k occurs in text as a plain substring, ignoring case.
PlainContains(text, k) ==
    \E off \in 0..(Len(text) - Len(k)) :
        \A i \in 1..Len(k) : Lower(k[i]) = Lower(text[off + i])

NonMissingRow(frame, i) == \E c \in Range(frame.columns) : ~isna(frame.rows[i][c])

DistinctValues(frame, c) == {frame.rows[i][c] : i \in 1..Len(frame.rows)} \ {NaN}

KeywordMode == SidebarShown /\ search_method = "keyword"
FacetMode == SidebarShown /\ search_method = "facet"

\* C1: in keyword mode with a non-empty keyword k the result is exactly the
\* rows of the loaded table with a non-missing cell whose text contains k as
\* a substring, case-insensitively, in the original order.
C1_KeywordIsSubstringSearch ==
    (KeywordMode /\ search_term # <<>>) =>
        filtered_df =
            [columns |-> df.columns,
             rows |-> SelectSeq(df.rows,
                         LAMBDA r : \E c \in Range(df.columns) :
                                       ~isna(r[c]) /\ PlainContains(r[c], search_term))]

\* C2: in facet mode a row of the loaded table is in the result iff, for
\* every facet with at least one selected value, the row's value as text is
\* among the selected values.
C2_FacetFilter ==
    FacetMode =>
        filtered_df =
            [columns |-> df.columns,
             rows |-> SelectSeq(df.rows,
                         LAMBDA r : \A c \in Range(df.columns) :
                                       session_state.filters[c] # {} =>
                                           astype_str(r[c]) \in session_state.filters[c])]

\* C2 witness: two facets each carry a selection and the result is a proper,
\* non-empty part of the table.
C2_Witness ==
    /\ FacetMode
    /\ \A c \in FacetColumns : session_state.filters[c] # {}
    /\ Len(filtered_df.rows) > 0
    /\ Len(filtered_df.rows) < Len(df.rows)

\* C3: no call of load_player_data or load_summary_data raises past the
\* loader; every failure gives an empty table.
C3_LoaderNeverRaises ==
    /\ \A i \in 1..Len(calls) : ~calls[i].raised
    /\ ~summary_call.raised

\* C4: for a loaded table with a result column the win ratio is
\* 100 * wins / rows (shown to one decimal, kept here in tenths of a
\* percent), lies between 0 and 100, and no ratio is formed from zero rows.
C4_WinRate ==
    (summary.status = "metrics" /\ summary.has_result) =>
        LET n == Len(sdf.rows)
            w == Cardinality({i \in 1..n : sdf.rows[i]["result"] = WinToken})
        IN  /\ n > 0
            /\ summary.total = n
            /\ summary.wins = w
            /\ summary.win_rate >= 0
            /\ summary.win_rate <= 1000
            /\ 2 * (summary.win_rate * n - 1000 * w) <= n
            /\ 2 * (1000 * w - summary.win_rate * n) <= n
            /\ (w = 0 => summary.win_rate = 0)
            /\ (w = n => summary.win_rate = 1000)

\* C4 witness: three rows, two of them wins: 66.7 %.
C4_Witness ==
    /\ summary.status = "metrics"
    /\ summary.has_result
    /\ summary.total = 3
    /\ summary.wins = 2
    /\ summary.win_rate = 667

\* C5: with no active constraint (keyword mode with an empty keyword, facet
\* mode with no value selected) the result is the loaded table unchanged.
C5_NoConstraintIsIdentity ==
    (\/ KeywordMode /\ search_term = <<>>
     \/ FacetMode /\ \A c \in FacetColumns : session_state.filters[c] = {})
        => filtered_df = df

\* C5 witness: facet mode, facets offered, nothing selected, several rows.
C5_Witness ==
    /\ FacetMode
    /\ facets # {}
    /\ \A c \in FacetColumns : session_state.filters[c] = {}
    /\ Len(df.rows) >= 2
    /\ page = "results"

\* C6: in facet mode a column is offered as a facet iff it has between 1 and
\* 50 distinct non-missing values in the full table; a column that is not
\* offered carries no selection.
C6_FacetOffered ==
    FacetMode =>
        \A c \in Range(df.columns) :
            /\ c \in facets <=> (/\ Cardinality(DistinctValues(df, c)) >= 1
                                 /\ Cardinality(DistinctValues(df, c)) <= 50)
            /\ c \notin facets => session_state.filters[c] = {}

\* A column with exactly 50 distinct values is offered.
C6_WitnessAtLimit ==
    /\ FacetMode
    /\ \E c \in Range(df.columns) :
          Cardinality(DistinctValues(df, c)) = 50 /\ c \in facets

\* C6 witness: a column with more than 50 distinct values is not offered.
C6_WitnessOverLimit ==
    /\ FacetMode
    /\ \E c \in Range(df.columns) :
          Cardinality(DistinctValues(df, c)) > 50 /\ c \notin facets

\* C7: with the display-column selection empty nothing is exported and the
\* warning is shown; an export is offered only with a column selected and a
\* non-empty result.
C7_ExportNeedsColumns ==
    /\ (reset_button /\ display_columns = <<>>) => (~csv.offered /\ page = "nocolumns")
    /\ csv.offered => (/\ display_columns # <<>>
                       /\ ~empty(filtered_df)
                       /\ csv.header = display_columns
                       /\ Len(csv.lines) = Len(filtered_df.rows))

\* C7 witness: rows to show, but every display column deselected.
C7_Witness ==
    /\ page = "nocolumns"
    /\ ~empty(filtered_df)
    /\ display_columns = <<>>
    /\ ~csv.offered

\* C8: no table returned by load_player_data or load_summary_data holds a
\* row in which every column is missing.
C8_NoAllMissingRow ==
    /\ \A i \in 1..Len(df.rows) : NonMissingRow(df, i)
    /\ \A i \in 1..Len(sdf.rows) : NonMissingRow(sdf, i)

\* The summary loader keeps no table: it reaches the source whenever it has
\* an identifier and a client.
SummaryNeverMemoized ==
    summary_call.made =>
        (summary_call.contacted <=>
            (SPREADSHEET_ID # "" /\ summary_call.client = "client"))

\* C9 as stated: after a completed load for a key, every call for that key
\* inside the five-minute window is served from the memo without reaching
\* the source, and a call after the window runs the loader again; the
\* summary loader keeps no table.
C9_MemoWithinWindow ==
    /\ \A i \in 1..Len(calls) :
          LET c == calls[i] IN
          c.prev.done =>
              /\ now < c.prev.at + TTL =>
                    (c.hit /\ ~c.contacted /\ c.value = c.prev.value)
              /\ now >= c.prev.at + TTL => ~c.hit
    /\ SummaryNeverMemoized

\* C9 amended: the same, for calls with no reset (st.cache_data.clear())
\* since the load; after a reset, or with no earlier load, the loader runs
\* again, and reaches the source exactly when it has a client.
C9_MemoWithinWindowUnlessReset ==
    /\ \A i \in 1..Len(calls) :
          LET c == calls[i] IN
          /\ (c.prev.done /\ ~c.prev.cleared /\ now < c.prev.at + TTL) =>
                (c.hit /\ ~c.contacted /\ c.value = c.prev.value)
          /\ (~c.prev.done \/ c.prev.cleared \/ now >= c.prev.at + TTL) => ~c.hit
          /\ ~c.hit => (c.contacted <=> c.client = "client")
    /\ SummaryNeverMemoized

\* C9 witness: the clock has advanced, still inside the window, and the call
\* was served from the memo.
C9_Witness ==
    /\ Len(calls) = 1
    /\ calls[1].hit
    /\ now > calls[1].prev.at
    /\ ~empty(calls[1].value)

\* C10: the reset is offered whenever a table is loaded, and right after a
\* reset nothing memoized and no session value (keyword, facet selections,
\* display columns, temporary sheet key) remains.
C10_ResetClearsEverything ==
    /\ (SidebarShown /\ ~empty(df)) => reset_button
    /\ reset_done =>
          /\ calls[Len(calls)].hit = FALSE
          /\ search_term = <<>>
          /\ \A c \in FacetColumns : session_state.filters[c] = {}
          /\ session_state.temp = ""
          /\ (page \in {"results", "nocolumns"} => display_columns = df.columns)
====
